---- MODULE Spec2Model ----
(***************************************************************************)
(* SessionManager (session.ts): a map from session id to session record,   *)
(* one idle-timeout timer per record, the session metrics, and the         *)
(* asynchronous closeAllSessions loop.                                     *)
(*                                                                         *)
(* Time is counted in ticks.  A timer holds the ticks left until it is     *)
(* due; a due timer fires before time advances any further.                *)
(***************************************************************************)
EXTENDS Integers, Sequences, FiniteSets, TLC

\* ---------------------------------------------------------------- bounds
\* SESSION_TIMEOUT, in ticks (the constructor's sessionTimeoutSeconds).
SessionTimeout == 2
\* Transports the callers create; every store() passes a fresh one.
MaxTransports == 2
\* How far the session gauge may fall below the number of sessions.
MaxDebt == 2

\* Session ids the callers use.  "constructor" is a property every plain
\* object inherits from Object.prototype.
SessionIds == {"session-1", "constructor"}
InheritedKeys == {"constructor"}
\* What the caller that owns transport t passes to store() with it.
TokenOf(t) == t
UserAgentOf(t) == IF t % 2 = 1 THEN "Agent/1.0" ELSE "Agent/2.0"
ToolsetOf(t) == IF t % 2 = 1 THEN "toolset1" ELSE "toolset2"
\* Concurrent callers of closeAllSessions().
Closers == {"c1"}

\* The value `undefined` where a transport is expected.
Undefined == 0
\* `undefined` where a string is expected.
UndefinedStr == "undefined"
\* `undefined` where a token is expected.
NoToken == 0

VARIABLES
    sessions,          \* own properties of this.sessions: id -> record
    keyOrder,          \* Object.keys(this.sessions): the ids in insertion order
    inheritedTimeout,  \* the `timeout` property set on an inherited value
    strayTimers,       \* scheduled timers no `timeout` property holds: <<id, left>> -> how many
    activeSessions,    \* gauge mcp_sessions_active_total
    sessionTimeouts,   \* counter mcp_sessions_timeout_total
    closeCalls,        \* transport -> number of close() calls received
    errorLog,          \* number of "Error closing transport" lines logged
    closers,           \* closer -> position of its closeAllSessions() call
    nextTransport,     \* the next fresh transport
    released,          \* transports whose session a caller deleted itself
    idle,              \* id -> ticks since the session's last store or read
    last,              \* the operation that produced this state; whether its
                       \* id was a stored session, and how long idle, before
    allTools,          \* loadToolsetsFromCfg: the catalog passed to it
    localConfig,       \* Object.entries(localConfig.toolsets) of the config passed
    allToolsets,       \* the value loadToolsetsFromCfg returned last
    calls,             \* how many times loadToolsetsFromCfg was called
    toolName,          \* extractToolNameAfterPrefix: its argument, as characters
    extractedName,     \* the string extractToolNameAfterPrefix returned
    externalName,      \* findToolByExternalName: the name looked up
    availableTools,    \* findToolByExternalName: the tools searched
    foundTool,         \* what findToolByExternalName returned
    nameCall,          \* the tool-name function called last
    html,              \* injectAnalytics: the page, as its pieces
    enableAnalytics,   \* injectAnalytics: its second argument
    segmentWriteKey,   \* injectAnalytics: its third argument
    analyticsLoads,    \* whether import('../analytics.js') gives the functions
    injected,          \* the page injectAnalytics resolved to
    viewCall,          \* the view function called last
    analyticsEnabled,  \* AnalyticsService.isEnabled(): a write key was given
    reportingInterval, \* this.reportingInterval: null, or the interval it holds
    intervals,         \* the intervals scheduled and not cleared
    initialReports,    \* the one-minute timers scheduled and not fired
    starts,            \* how many intervals were created
    reports,           \* how many times the reporter ran sendMetricsSummary
    reporting          \* the caller's last call, and the reporter's last step

sessionVars == <<sessions, keyOrder, inheritedTimeout, strayTimers, activeSessions,
                 sessionTimeouts, closeCalls, errorLog, closers, nextTransport,
                 released, idle, last>>

toolsetVars == <<allTools, localConfig, allToolsets, calls>>

nameVars == <<toolName, extractedName, externalName, availableTools, foundTool,
              nameCall>>

viewVars == <<html, enableAnalytics, segmentWriteKey, analyticsLoads, injected,
              viewCall>>

reportVars == <<analyticsEnabled, reportingInterval, intervals, initialReports,
                starts, reports, reporting>>

vars == <<sessionVars, toolsetVars, nameVars, viewVars, reportVars>>

\* The SessionManager, the timers, the metrics and the transports as one value.
SM == [sessions |-> sessions, keyOrder |-> keyOrder,
       inheritedTimeout |-> inheritedTimeout, strayTimers |-> strayTimers,
       activeSessions |-> activeSessions,
       sessionTimeouts |-> sessionTimeouts, closeCalls |-> closeCalls,
       errorLog |-> errorLog]

\* ------------------------------------------------------ property lookup
HasOwn(st, sid) == sid \in DOMAIN st.sessions

\* `sessionId in this.sessions`, and the truthiness of
\* `this.sessions[sessionId]`: own properties and inherited ones.
In(st, sid) == HasOwn(st, sid) \/ sid \in InheritedKeys

\* this.sessions[sid].timeout
TimeoutOf(st, sid) ==
    IF HasOwn(st, sid) THEN st.sessions[sid].timeout ELSE st.inheritedTimeout[sid]

\* this.sessions[sid].transport (an inherited value has no such property)
TransportOf(st, sid) ==
    IF HasOwn(st, sid) THEN st.sessions[sid].transport ELSE Undefined

\* ----------------------------------------------------------------- timers
\* A `timeout` property holds the timer object itself: scheduled with `left`
\* ticks to go, or no longer scheduled (cleared, fired, or never set).
\* Every timer object is held by at most one property; a scheduled timer
\* whose property is overwritten or removed stays scheduled, as a stray one.
NoTimer == [live |-> FALSE, left |-> 0]

\* setTimeout(callback, SESSION_TIMEOUT * 1000)
setTimeout == [live |-> TRUE, left |-> SessionTimeout]

AddStray(st, sid, tm) ==
    IF tm.live
    THEN [st EXCEPT !.strayTimers[<<sid, tm.left>>] = @ + 1]
    ELSE st

\* clearTimeout(this.sessions[sid].timeout)
clearTimeout(st, sid) ==
    IF HasOwn(st, sid)
    THEN [st EXCEPT !.sessions[sid].timeout = NoTimer]
    ELSE [st EXCEPT !.inheritedTimeout[sid] = NoTimer]

\* `session.timeout = timeout`, session being this.sessions[sid]
SetTimeoutOf(st, sid, tm) ==
    IF HasOwn(st, sid)
    THEN [AddStray(st, sid, TimeoutOf(st, sid)) EXCEPT !.sessions[sid].timeout = tm]
    ELSE [AddStray(st, sid, TimeoutOf(st, sid)) EXCEPT !.inheritedTimeout[sid] = tm]

\* `this.sessions[sid] = r`
SetSession(st, sid, r) ==
    LET s1 == IF HasOwn(st, sid) THEN AddStray(st, sid, TimeoutOf(st, sid)) ELSE st
    IN  [s1 EXCEPT !.sessions = (sid :> r) @@ @,
                   !.keyOrder = IF HasOwn(st, sid) THEN @ ELSE Append(@, sid)]

\* `delete this.sessions[sid]`: removes an own property, nothing else
DeleteSession(st, sid) ==
    IF HasOwn(st, sid)
    THEN [AddStray(st, sid, TimeoutOf(st, sid)) EXCEPT
             !.sessions = [k \in (DOMAIN @) \ {sid} |-> @[k]],
             !.keyOrder = SelectSeq(@, LAMBDA k : k # sid)]
    ELSE st

\* ------------------------------------------------------- SessionManager
\* resetTimeout() without its clearTimeout call.
resetTimeoutKeepsTimer(st, sid) ==
    IF ~In(st, sid) THEN st
    ELSE SetTimeoutOf(st, sid, setTimeout)

resetTimeout(st, sid) ==
    IF ~In(st, sid) THEN st
    ELSE SetTimeoutOf(clearTimeout(st, sid), sid, setTimeout)

\* delete() without its clearTimeout call.
deleteKeepsTimer(st, sid) ==
    IF In(st, sid)
    THEN [DeleteSession(st, sid) EXCEPT !.activeSessions = @ - 1]
    ELSE st

\* delete() that also calls close() on the removed session's transport.
deleteClosesTransport(st, sid) ==
    IF In(st, sid)
    THEN LET s1 == IF HasOwn(st, sid)
                   THEN [st EXCEPT !.closeCalls[TransportOf(st, sid)] = @ + 1]
                   ELSE st
         IN  [DeleteSession(clearTimeout(s1, sid), sid) EXCEPT !.activeSessions = @ - 1]
    ELSE st

\* delete() that removes every session.
deleteEverySession(st, sid) ==
    IF In(st, sid)
    THEN [clearTimeout(st, sid) EXCEPT
             !.sessions = [k \in {} |-> Undefined],
             !.keyOrder = <<>>,
             !.activeSessions = @ - 1]
    ELSE st

delete(st, sid) ==
    IF In(st, sid)
    THEN [DeleteSession(clearTimeout(st, sid), sid) EXCEPT !.activeSessions = @ - 1]
    ELSE st

has(st, sid) ==
    [ret |-> In(st, sid),
     st  |-> IF In(st, sid) THEN resetTimeout(st, sid) ELSE st]

\* store() that leaves the timer of the record it replaces scheduled.
storeKeepsTimer(st, sid, token, userAgent, toolset, transport) ==
    LET s1 == IF In(st, sid)
              THEN st
              ELSE [st EXCEPT !.activeSessions = @ + 1]
    IN  SetSession(s1, sid,
                   [token |-> token, userAgent |-> userAgent, toolset |-> toolset,
                    transport |-> transport, timeout |-> setTimeout])

store(st, sid, token, userAgent, toolset, transport) ==
    LET e  == has(st, sid)
        s1 == IF e.ret
              THEN clearTimeout(e.st, sid)
              ELSE [e.st EXCEPT !.activeSessions = @ + 1]
    IN  SetSession(s1, sid,
                   [token |-> token, userAgent |-> userAgent, toolset |-> toolset,
                    transport |-> transport, timeout |-> setTimeout])

\* The callback both store() and resetTimeout() hand to setTimeout.
TimeoutCallback(st, sid) ==
    delete([st EXCEPT !.sessionTimeouts = @ + 1], sid)

get(st, sid) ==
    IF In(st, sid)
    THEN [ret |-> IF HasOwn(st, sid)
                  THEN [defined |-> TRUE,
                        token |-> st.sessions[sid].token,
                        userAgent |-> st.sessions[sid].userAgent,
                        toolset |-> st.sessions[sid].toolset,
                        transport |-> st.sessions[sid].transport]
                  ELSE [defined |-> TRUE, token |-> NoToken,
                        userAgent |-> UndefinedStr, toolset |-> UndefinedStr,
                        transport |-> Undefined],
          st  |-> resetTimeout(st, sid)]
    ELSE [ret |-> [defined |-> FALSE, token |-> NoToken,
                   userAgent |-> UndefinedStr, toolset |-> UndefinedStr,
                   transport |-> Undefined],
          st  |-> st]

\* getToken() without its resetTimeout call.
getTokenNoReset(st, sid) ==
    [ret |-> IF HasOwn(st, sid) THEN st.sessions[sid].token ELSE NoToken,
     st  |-> st]

getToken(st, sid) ==
    IF In(st, sid)
    THEN [ret |-> IF HasOwn(st, sid) THEN st.sessions[sid].token ELSE NoToken,
          st  |-> resetTimeout(st, sid)]
    ELSE [ret |-> NoToken, st |-> st]

getToolset(st, sid) ==
    IF ~In(st, sid)
    THEN [ret |-> UndefinedStr, threw |-> TRUE, st |-> st]
    ELSE [ret |-> IF HasOwn(st, sid) THEN st.sessions[sid].toolset ELSE UndefinedStr,
          threw |-> FALSE,
          st  |-> resetTimeout(st, sid)]

getUserAgent(st, sid) ==
    IF In(st, sid)
    THEN [ret |-> IF HasOwn(st, sid) THEN st.sessions[sid].userAgent ELSE UndefinedStr,
          st  |-> resetTimeout(st, sid)]
    ELSE [ret |-> UndefinedStr, st |-> st]

getTransport(st, sid) ==
    IF In(st, sid)
    THEN [ret |-> TransportOf(st, sid), st |-> resetTimeout(st, sid)]
    ELSE [ret |-> Undefined, st |-> st]

getAllSessionIds(st) == st.keyOrder

\* getActiveCount() that returns the session gauge.
getActiveCountGauge(st) == st.activeSessions

getActiveCount(st) == Len(st.keyOrder)

\* transport.close() is called: the transport records the call.
CallClose(st, t) == [st EXCEPT !.closeCalls[t] = @ + 1]

\* closeAllSessions(): the loop over the remaining ids, run until it awaits
\* a close() or ends.  Yields the state and the closer's new position.
RECURSIVE CloseLoop(_, _)
CloseLoop(st, ids) ==
    IF ids = <<>>
    THEN [st |-> st, pc |-> "done", sid |-> UndefinedStr,
          transport |-> Undefined, ids |-> <<>>]
    ELSE LET sid == Head(ids)
             g   == getTransport(st, sid)
         IN  IF g.ret # Undefined
             THEN [st |-> CallClose(g.st, g.ret), pc |-> "await", sid |-> sid,
                   transport |-> g.ret, ids |-> Tail(ids)]
             ELSE CloseLoop(delete(g.st, sid), Tail(ids))

\* closeAllSessions() without the try/catch: a rejected close() ends the call.
CloseResumeAbort(st, sid, ids, ok) ==
    IF ok
    THEN CloseLoop(delete(st, sid), ids)
    ELSE [st |-> st, pc |-> "done", sid |-> UndefinedStr,
          transport |-> Undefined, ids |-> <<>>]

\* closeAllSessions() that calls close() again, and awaits it, when it
\* rejected.
CloseResumeRetries(st, sid, ids, ok) ==
    IF ok
    THEN CloseLoop(delete(st, sid), ids)
    ELSE [st |-> st, pc |-> "await", sid |-> sid,
          transport |-> TransportOf(st, sid), ids |-> ids]

\* closeAllSessions() after the awaited close() settled: the catch block when
\* it rejected, the delete, and the rest of the loop.
CloseResume(st, sid, ids, ok) ==
    LET s1 == IF ok THEN st ELSE [st EXCEPT !.errorLog = @ + 1]
    IN  CloseLoop(delete(s1, sid), ids)

\* ------------------------------------------------------------------ state
IdleCloser == [pc |-> "idle", sid |-> UndefinedStr, transport |-> Undefined,
               ids |-> <<>>, clean |-> TRUE, snapshot |-> {}]

\* The SessionManager after construction, its callers using the ids `ids`
\* and making the closeAllSessions() calls `cs`.
SessionManagerInit(ids, cs) ==
    /\ sessions = [k \in {} |-> Undefined]
    /\ keyOrder = <<>>
    /\ inheritedTimeout = [k \in InheritedKeys |-> NoTimer]
    /\ strayTimers = [x \in ids \X (0..SessionTimeout) |-> 0]
    /\ activeSessions = 0
    /\ sessionTimeouts = 0
    /\ closeCalls = [t \in 1..MaxTransports |-> 0]
    /\ errorLog = 0
    /\ closers = [c \in cs |-> IdleCloser]
    /\ nextTransport = 1
    /\ released = {}
    /\ idle = [k \in ids |-> 0]
    /\ last = [op |-> "init", sid |-> UndefinedStr, own |-> FALSE, idle |-> 0]

\* The same, one closeAllSessions() call under way at a time.
SessionsInit(ids) == SessionManagerInit(ids, Closers)

\* loadToolsetsFromCfg is not called.
NoToolsets ==
    /\ allTools = <<>>
    /\ localConfig = <<>>
    /\ allToolsets = <<>>
    /\ calls = 0

\* `undefined` where a tool definition is expected.
NoTool == [defined |-> FALSE]

\* No tool-name function is called.
NoNames ==
    /\ toolName = <<>>
    /\ extractedName = <<>>
    /\ externalName = <<>>
    /\ availableTools = <<>>
    /\ foundTool = NoTool
    /\ nameCall = "none"

\* injectAnalytics is not called.
NoViews ==
    /\ html = <<>>
    /\ enableAnalytics = "undefined"
    /\ segmentWriteKey = "undefined"
    /\ analyticsLoads = TRUE
    /\ injected = <<>>
    /\ viewCall = "none"

\* `null` where an interval is expected.
Null == 0

\* The AnalyticsService is not used.
NoReporting ==
    /\ analyticsEnabled = FALSE
    /\ reportingInterval = Null
    /\ intervals = {}
    /\ initialReports = 0
    /\ starts = 0
    /\ reports = 0
    /\ reporting = [called |-> "none", step |-> "none"]

Init == SessionsInit(SessionIds) /\ NoToolsets /\ NoNames /\ NoViews /\ NoReporting

\* The sessions the gauge fails to count.
Debt(st) == Len(st.keyOrder) - st.activeSessions

\* The steps under way that can still add to the debt: a scheduled timer
\* held by an inherited value, and a closeAllSessions() call that has an
\* inherited key left to process.
Pending(st, cl) ==
    Cardinality({k \in InheritedKeys : st.inheritedTimeout[k].live})
    + Cardinality({x \in (DOMAIN cl) \X InheritedKeys :
          /\ cl[x[1]].pc = "await"
          /\ \/ cl[x[1]].sid = x[2]
             \/ \E i \in 1..Len(cl[x[1]].ids) : cl[x[1]].ids[i] = x[2]})

\* The program's next state is st, the closers' cl.  The debt is capped: a
\* caller's operation that would take it, with the steps under way, past
\* MaxDebt is not made.
Commit(st, cl) ==
    /\ Debt(st) + Pending(st, cl) <= MaxDebt
    /\ closers' = cl
    /\ sessions' = st.sessions
    /\ keyOrder' = st.keyOrder
    /\ inheritedTimeout' = st.inheritedTimeout
    /\ strayTimers' = st.strayTimers
    /\ activeSessions' = st.activeSessions
    /\ sessionTimeouts' = st.sessionTimeouts
    /\ closeCalls' = st.closeCalls
    /\ errorLog' = st.errorLog

\* A session that was stored or read has been idle for no time.
Touched(sid) == [idle EXCEPT ![sid] = 0]

\* Idle time is kept for the sessions of st only.
IdleIn(st, f) == [k \in DOMAIN f |-> IF HasOwn(st, k) THEN f[k] ELSE 0]

\* The program's next state is st, the idle times f.
Clocks(st, f) == idle' = IdleIn(st, f)

\* The operation op on id sid is the one that produces the next state; it
\* is an operation of the SessionManager.
Did(op, sid) ==
    /\ last' = [op |-> op, sid |-> sid, own |-> HasOwn(SM, sid),
                idle |-> IF sid \in DOMAIN idle THEN idle[sid] ELSE 0]
    /\ UNCHANGED <<toolsetVars, nameVars, viewVars, reportVars>>

\* Another operation ran while a closeAllSessions() call was under way.
Interleaved == [c \in DOMAIN closers |->
                   IF closers[c].pc = "await"
                   THEN [closers[c] EXCEPT !.clean = FALSE]
                   ELSE closers[c]]

\* ---------------------------------------------------------------- actions
Store(sid) ==
    /\ nextTransport <= MaxTransports
    /\ LET st == store(SM, sid, TokenOf(nextTransport), UserAgentOf(nextTransport),
                       ToolsetOf(nextTransport), nextTransport)
       IN  /\ Commit(st, Interleaved)
           /\ Clocks(st, Touched(sid))
    /\ nextTransport' = nextTransport + 1
    /\ Did("store", sid)
    /\ UNCHANGED released

\* A read accessor returned through r.
Read(sid, r) ==
    /\ Commit(r.st, Interleaved)
    /\ Clocks(r.st, Touched(sid))
    /\ Did("read", sid)
    /\ UNCHANGED <<nextTransport, released>>

Get(sid) == Read(sid, get(SM, sid))

Has(sid) == Read(sid, has(SM, sid))

GetToken(sid) == Read(sid, getToken(SM, sid))

GetToolset(sid) == Read(sid, getToolset(SM, sid))

GetUserAgent(sid) == Read(sid, getUserAgent(SM, sid))

GetTransport(sid) == Read(sid, getTransport(SM, sid))

\* A caller deletes the session; closing its transport is then the caller's.
Delete(sid) ==
    /\ LET st == delete(SM, sid)
       IN  /\ Commit(st, Interleaved)
           /\ Clocks(st, idle)
    /\ released' = released \cup
                      (IF HasOwn(SM, sid) THEN {sessions[sid].transport} ELSE {})
    /\ Did("delete", sid)
    /\ UNCHANGED nextTransport

\* The scheduled timers: where each is held, the id its callback deletes and
\* the ticks it has left.
Timers(st) ==
    {[at |-> "own", sid |-> k, left |-> st.sessions[k].timeout.left] :
        k \in {k \in DOMAIN st.sessions : st.sessions[k].timeout.live}}
    \cup {[at |-> "inherited", sid |-> k, left |-> st.inheritedTimeout[k].left] :
        k \in {k \in InheritedKeys : st.inheritedTimeout[k].live}}
    \cup {[at |-> "stray", sid |-> x[1], left |-> x[2]] :
        x \in {x \in DOMAIN st.strayTimers : st.strayTimers[x] > 0}}

\* Timer tm has fired: it is no longer scheduled.
Fired(st, tm) ==
    CASE tm.at = "own" -> [st EXCEPT !.sessions[tm.sid].timeout = NoTimer]
      [] tm.at = "inherited" -> [st EXCEPT !.inheritedTimeout[tm.sid] = NoTimer]
      [] tm.at = "stray" -> [st EXCEPT !.strayTimers[<<tm.sid, tm.left>>] = @ - 1]

\* A due timer fires and its callback runs.
TimerFire(tm) ==
    /\ tm \in Timers(SM)
    /\ tm.left = 0
    /\ LET st == TimeoutCallback(Fired(SM, tm), tm.sid)
       IN  /\ Commit(st, Interleaved)
           /\ Clocks(st, idle)
    /\ Did("timeout", tm.sid)
    /\ UNCHANGED <<nextTransport, released>>

\* One tick passes; no timer is overdue.
Elapse(tm) == IF tm.live THEN [tm EXCEPT !.left = @ - 1] ELSE tm

Tick ==
    /\ \A tm \in Timers(SM) : tm.left > 0
    /\ sessions' = [k \in DOMAIN sessions |->
                       [sessions[k] EXCEPT !.timeout = Elapse(@)]]
    /\ inheritedTimeout' = [k \in InheritedKeys |-> Elapse(inheritedTimeout[k])]
    /\ strayTimers' = [x \in DOMAIN strayTimers |->
                          IF x[2] < SessionTimeout
                          THEN strayTimers[<<x[1], x[2] + 1>>] ELSE 0]
    /\ idle' = [k \in DOMAIN idle |->
                   IF HasOwn(SM, k) /\ idle[k] <= SessionTimeout
                   THEN idle[k] + 1 ELSE idle[k]]
    /\ Did("tick", UndefinedStr)
    /\ UNCHANGED <<keyOrder, activeSessions, sessionTimeouts, closeCalls,
                   errorLog, closers, nextTransport, released>>

\* The closer's position after a run of the loop.
Position(r, clean, snapshot) ==
    [pc |-> r.pc, sid |-> r.sid, transport |-> r.transport, ids |-> r.ids,
     clean |-> clean, snapshot |-> snapshot]

\* closeAllSessions() is called.
CloseAllStart(c) ==
    /\ closers[c].pc = "idle"
    /\ LET r == CloseLoop(SM, getAllSessionIds(SM))
       IN  /\ Commit(r.st,
                  [Interleaved EXCEPT ![c] =
                      Position(r, TRUE,
                                   {<<k, sessions[k].transport>> : k \in DOMAIN sessions})])
           /\ Clocks(r.st, IF r.pc = "await" THEN Touched(r.sid) ELSE idle)
    /\ Did("closeAll", UndefinedStr)
    /\ UNCHANGED <<nextTransport, released>>

\* The close() a closer awaits resolves (ok) or rejects.
CloseSettle(c, ok) ==
    /\ closers[c].pc = "await"
    /\ LET r == CloseResume(SM, closers[c].sid, closers[c].ids, ok)
       IN  /\ Commit(r.st,
                  [Interleaved EXCEPT ![c] =
                      Position(r, closers[c].clean, closers[c].snapshot)])
           /\ Clocks(r.st, IF r.pc = "await" THEN Touched(r.sid) ELSE idle)
    /\ Did(IF ok THEN "closed" ELSE "closeFailed", closers[c].sid)
    /\ UNCHANGED <<nextTransport, released>>

Next ==
    \/ \E sid \in SessionIds : Store(sid)
    \/ \E sid \in SessionIds : Get(sid)
    \/ \E sid \in SessionIds : Has(sid)
    \/ \E sid \in SessionIds : GetToken(sid)
    \/ \E sid \in SessionIds : GetToolset(sid)
    \/ \E sid \in SessionIds : GetUserAgent(sid)
    \/ \E sid \in SessionIds : GetTransport(sid)
    \/ \E sid \in SessionIds : Delete(sid)
    \/ \E tm \in Timers(SM) : TimerFire(tm)
    \/ Tick
    \/ \E c \in Closers : CloseAllStart(c)
    \/ \E c \in Closers, ok \in BOOLEAN : CloseSettle(c, ok)

Spec == Init /\ [][Next]_vars

\* Every close() a closeAllSessions() call awaits settles: the promise a
\* transport returned is resolved or rejected, and the call is resumed.
CloseSettles == WF_vars(\E c \in Closers, ok \in BOOLEAN : CloseSettle(c, ok))

SpecSettling == Init /\ [][Next]_vars /\ CloseSettles

\* ------------------------------------------------ the empty-string id
\* The same SessionManager, its callers using the id "".
EmptyId == ""

InitEmptyId == SessionsInit({EmptyId}) /\ NoToolsets /\ NoNames /\ NoViews /\ NoReporting

NextEmptyId ==
    \/ Store(EmptyId)
    \/ Get(EmptyId)
    \/ Has(EmptyId)
    \/ GetToken(EmptyId)
    \/ GetToolset(EmptyId)
    \/ GetUserAgent(EmptyId)
    \/ GetTransport(EmptyId)
    \/ Delete(EmptyId)
    \/ \E tm \in Timers(SM) : TimerFire(tm)
    \/ Tick
    \/ \E c \in Closers : CloseAllStart(c)
    \/ \E c \in Closers, ok \in BOOLEAN : CloseSettle(c, ok)

SpecEmptyId == InitEmptyId /\ [][NextEmptyId]_vars

\* ------------------------------------- overlapping closeAllSessions()
\* The same SessionManager with one session id, closeAllSessions() called
\* again while a call is awaiting a close().
OverlapId == "session-1"

OverlapClosers == {"c1", "c2"}

InitOverlap ==
    SessionManagerInit({OverlapId}, OverlapClosers) /\ NoToolsets /\ NoNames /\ NoViews /\ NoReporting

NextOverlap ==
    \/ Store(OverlapId)
    \/ GetTransport(OverlapId)
    \/ Delete(OverlapId)
    \/ \E tm \in Timers(SM) : TimerFire(tm)
    \/ Tick
    \/ \E c \in OverlapClosers : CloseAllStart(c)
    \/ \E c \in OverlapClosers, ok \in BOOLEAN : CloseSettle(c, ok)

SpecOverlap == InitOverlap /\ [][NextOverlap]_vars

\* ------------------------------- getAllSessionIds() and getActiveCount()
\* A caller's getAllSessionIds() or getActiveCount() returned ret: nothing
\* is assigned, and the call is the one that produces the next state.
Observed(op, ret) ==
    /\ last' = [op |-> op, sid |-> UndefinedStr, own |-> FALSE, idle |-> 0, ret |-> ret]
    /\ UNCHANGED <<sessions, keyOrder, inheritedTimeout, strayTimers, activeSessions,
                   sessionTimeouts, closeCalls, errorLog, closers, nextTransport,
                   released, idle, toolsetVars, nameVars, viewVars, reportVars>>

GetAllSessionIds == Observed("getAllSessionIds", getAllSessionIds(SM))

GetActiveCount == Observed("getActiveCount", getActiveCount(SM))

\* The same SessionManager, its callers also listing and counting the
\* sessions; closeAllSessions() is not called.
NextObserve ==
    \/ \E sid \in SessionIds : Store(sid)
    \/ \E sid \in SessionIds : Has(sid)
    \/ \E sid \in SessionIds : Delete(sid)
    \/ \E tm \in Timers(SM) : TimerFire(tm)
    \/ Tick
    \/ GetAllSessionIds
    \/ GetActiveCount

SpecObserve == Init /\ [][NextObserve]_vars

\* -------------------------------------------------- loadToolsetsFromCfg
\* Longest catalog, longest declared tool list, most toolsets in a config
\* and most calls made.
MaxCatalog == 2
MaxDeclared == 2
MaxToolsets == 2
MaxCalls == 2

\* Tool definitions: two services define a tool of the same short name.
Tools == {[name |-> "jobs_list", fullName |-> "controller.jobs_list"],
          [name |-> "jobs_list", fullName |-> "eda.jobs_list"],
          [name |-> "hosts_list", fullName |-> "controller.hosts_list"]}

FullNames == {t.fullName : t \in Tools}

\* Toolset names a config declares (none of them an integer-like key, so
\* Object.entries lists them in the order they were written).
ToolsetNames == {"job_management", "all"}

SeqsUpTo(S, n) == UNION {[1..m -> S] : m \in 0..n}

\* cfgToolList.includes(x)
Includes(list, x) == \E i \in 1..Len(list) : list[i] = x

\* allTools.filter(...) that keeps every tool.
FilterToolsKeepsAll(tools, cfgToolList) == tools

\* allTools.filter((t) => cfgToolList.includes(t.fullName))
FilterTools(tools, cfgToolList) ==
    SelectSeq(tools, LAMBDA t : Includes(cfgToolList, t.fullName))

\* Object.entries(localConfig.toolsets).map(...)
Entries(tools, toolsets) ==
    [i \in 1..Len(toolsets) |->
        <<toolsets[i][1], FilterTools(tools, toolsets[i][2])>>]

\* entries.map((e) => e[1]).flat() that takes the first toolset only.
FlatFirstOnly(entries) ==
    IF entries = <<>> THEN <<>> ELSE Head(entries)[2]

\* entries.map((e) => e[1]).flat()
RECURSIVE Flat(_)
Flat(entries) ==
    IF entries = <<>> THEN <<>> ELSE Head(entries)[2] \o Flat(Tail(entries))

\* allListWithDup.reduce(...) that keeps every element.
RECURSIVE DedupKeepsAll(_, _)
DedupKeepsAll(acc, list) ==
    IF list = <<>> THEN acc ELSE DedupKeepsAll(Append(acc, Head(list)), Tail(list))

\* allListWithDup.reduce(...) in which e takes the place of the tool of its
\* name that acc has.
RECURSIVE DedupLastWins(_, _)
DedupLastWins(acc, list) ==
    IF list = <<>> THEN acc
    ELSE LET e == Head(list)
         IN  DedupLastWins(IF \E i \in 1..Len(acc) : acc[i].name = e.name
                           THEN [i \in 1..Len(acc) |->
                                    IF acc[i].name = e.name THEN e ELSE acc[i]]
                           ELSE Append(acc, e),
                           Tail(list))

\* allListWithDup.reduce(...): e is pushed unless acc has a tool of its name.
RECURSIVE Dedup(_, _)
Dedup(acc, list) ==
    IF list = <<>> THEN acc
    ELSE LET e == Head(list)
             existingToolsByName == [i \in 1..Len(acc) |-> acc[i].name]
         IN  Dedup(IF ~Includes(existingToolsByName, e.name) THEN Append(acc, e) ELSE acc,
                   Tail(list))

\* Object.fromEntries in which the first entry of a key wins.
RECURSIVE FromEntriesFirstWins(_, _)
FromEntriesFirstWins(obj, entries) ==
    IF entries = <<>> THEN obj
    ELSE LET e == Head(entries)
         IN  FromEntriesFirstWins(IF \E i \in 1..Len(obj) : obj[i][1] = e[1]
                                  THEN obj
                                  ELSE Append(obj, e),
                                  Tail(entries))

\* Object.fromEntries: a key keeps the place of its first entry and the
\* value of its last one.
RECURSIVE FromEntries(_, _)
FromEntries(obj, entries) ==
    IF entries = <<>> THEN obj
    ELSE LET e == Head(entries)
             at == {i \in 1..Len(obj) : obj[i][1] = e[1]}
         IN  FromEntries(IF at = {}
                         THEN Append(obj, e)
                         ELSE [i \in 1..Len(obj) |-> IF i \in at THEN e ELSE obj[i]],
                         Tail(entries))

loadToolsetsFromCfg(tools, toolsets) ==
    LET entries == Entries(tools, toolsets)
        allListWithDup == Flat(entries)
        allList == Dedup(<<>>, allListWithDup)
    IN  FromEntries(<<>>, entries \o << <<"all", allList>> >>)

\* Object.keys(obj), and obj[key] of a key obj has.
Keys(obj) == {obj[i][1] : i \in 1..Len(obj)}

Value(obj, key) == obj[CHOOSE i \in 1..Len(obj) : obj[i][1] = key][2]

\* The lists a toolset declares: full names, none of them twice.
DeclaredLists ==
    {l \in SeqsUpTo(FullNames, MaxDeclared) :
        \A i, j \in 1..Len(l) : l[i] = l[j] => i = j}

\* The configs: toolsets of different names, each with its declared list.
Configs ==
    {c \in SeqsUpTo(ToolsetNames \X DeclaredLists, MaxToolsets) :
        \A i, j \in 1..Len(c) : c[i][1] = c[j][1] => i = j}

InitToolsets ==
    /\ SessionsInit({})
    /\ allTools \in SeqsUpTo(Tools, MaxCatalog)
    /\ localConfig \in Configs
    /\ allToolsets = <<>>
    /\ calls = 0
    /\ NoNames
    /\ NoViews /\ NoReporting

\* loadToolsetsFromCfg(allTools, localConfig) is called and returns.
LoadToolsets ==
    /\ calls < MaxCalls
    /\ allToolsets' = loadToolsetsFromCfg(allTools, localConfig)
    /\ calls' = calls + 1
    /\ UNCHANGED <<allTools, localConfig, sessionVars, nameVars, viewVars, reportVars>>

NextToolsets == LoadToolsets

SpecToolsets == InitToolsets /\ [][NextToolsets]_vars

\* ------------------------------------------ extractToolNameAfterPrefix
\* The longest name passed.
MaxName == 4

\* A string is the sequence of its characters: a letter, the period, and a
\* line terminator (which `.` in a regular expression does not match).
LineTerminators == {"\n"}

Chars == {"a", "."} \cup LineTerminators

Names == SeqsUpTo(Chars, MaxName)

\* The part of name after position i.
After(name, i) == SubSeq(name, i + 1, Len(name))

\* extractToolNameAfterPrefix that returns its argument.
extractKeepsName(name) == name

\* extractToolNameAfterPrefix matching /\.([^.]+)$/: the last period.
extractAfterLastPeriod(name) ==
    LET at == {i \in 1..(Len(name) - 1) :
                  /\ name[i] = "."
                  /\ \A j \in (i + 1)..Len(name) : name[j] \notin LineTerminators \cup {"."}}
    IN  IF at = {} THEN name ELSE After(name, CHOOSE i \in at : TRUE)

\* extractToolNameAfterPrefix matching /\.(.*)$/: nothing need follow.
extractAllowsEmpty(name) ==
    LET at == {i \in 1..Len(name) :
                  /\ name[i] = "."
                  /\ \A j \in (i + 1)..Len(name) : name[j] \notin LineTerminators}
    IN  IF at = {} THEN name ELSE After(name, CHOOSE i \in at : \A k \in at : i <= k)

\* name.match(/\.(.+)$/): the match starts at the leftmost period that one
\* or more characters, none a line terminator, follow up to the end of the
\* string; match[1] is what follows it.
extractToolNameAfterPrefix(name) ==
    LET at == {i \in 1..(Len(name) - 1) :
                  /\ name[i] = "."
                  /\ \A j \in (i + 1)..Len(name) : name[j] \notin LineTerminators}
    IN  IF at = {} THEN name ELSE After(name, CHOOSE i \in at : \A k \in at : i <= k)

InitExtract ==
    /\ SessionsInit({})
    /\ NoToolsets
    /\ toolName \in Names
    /\ extractedName = <<>>
    /\ externalName = <<>>
    /\ availableTools = <<>>
    /\ foundTool = NoTool
    /\ nameCall = "none"
    /\ NoViews /\ NoReporting

\* extractToolNameAfterPrefix(toolName) is called and returns.
Extract ==
    /\ nameCall = "none"
    /\ extractedName' = extractToolNameAfterPrefix(toolName)
    /\ nameCall' = "extract"
    /\ UNCHANGED <<toolName, externalName, availableTools, foundTool,
                   sessionVars, toolsetVars, viewVars, reportVars>>

NextExtract == Extract

SpecExtract == InitExtract /\ [][NextExtract]_vars

\* ---------------------------------------------- findToolByExternalName
\* The most tools searched.
MaxTools == 2

\* The catalog's tool definitions: name is the operation, fullName the
\* scope prefix, a period, and the operation.  Two scopes have an operation
\* of the same name, one name differs from another only in case, and one
\* operation name holds a period.
Definition(prefix, operation) ==
    [name |-> operation, fullName |-> prefix \o <<".">> \o operation]

CatalogTools ==
    { Definition(<<"c">>, <<"a">>),
      Definition(<<"e">>, <<"a">>),
      Definition(<<"c">>, <<"A">>),
      Definition(<<"c">>, <<"a", ".", "a">>) }

\* The names looked up: every name of the catalog and one that no tool has.
ExternalNames == {t.name : t \in CatalogTools} \cup {<<"b">>}

\* Array.prototype.find that returns the last match.
FindLast(tools, externalName_) ==
    LET hits == {i \in 1..Len(tools) : tools[i].name = externalName_}
    IN  IF hits = {} THEN NoTool
        ELSE [defined |-> TRUE, tool |-> tools[CHOOSE i \in hits : \A k \in hits : k <= i]]

\* Array.prototype.find with (tool) => tool.name === externalName: the
\* first element of that name, undefined when there is none.
Find(tools, externalName_) ==
    LET hits == {i \in 1..Len(tools) : tools[i].name = externalName_}
    IN  IF hits = {} THEN NoTool
        ELSE [defined |-> TRUE, tool |-> tools[CHOOSE i \in hits : \A k \in hits : i <= k]]

findToolByExternalName(externalName_, availableTools_) ==
    Find(availableTools_, externalName_)

InitFind ==
    /\ SessionsInit({})
    /\ NoToolsets
    /\ toolName = <<>>
    /\ extractedName = <<>>
    /\ externalName \in ExternalNames
    /\ availableTools \in SeqsUpTo(CatalogTools, MaxTools)
    /\ foundTool = NoTool
    /\ nameCall = "none"
    /\ NoViews /\ NoReporting

\* findToolByExternalName(externalName, availableTools) is called and
\* returns.
FindTool ==
    /\ nameCall = "none"
    /\ foundTool' = findToolByExternalName(externalName, availableTools)
    /\ nameCall' = "find"
    /\ UNCHANGED <<toolName, extractedName, externalName, availableTools,
                   sessionVars, toolsetVars, viewVars, reportVars>>

\* The short name of a definition d of availableTools is taken from its
\* full name and looked up in availableTools.
RoundTrip ==
    /\ nameCall = "none"
    /\ \E i \in 1..Len(availableTools) :
          /\ toolName' = availableTools[i].fullName
          /\ extractedName' = extractToolNameAfterPrefix(availableTools[i].fullName)
    /\ externalName' = extractedName'
    /\ foundTool' = findToolByExternalName(extractedName', availableTools)
    /\ nameCall' = "roundtrip"
    /\ UNCHANGED <<availableTools, sessionVars, toolsetVars, viewVars, reportVars>>

NextFind == FindTool \/ RoundTrip

SpecFind == InitFind /\ [][NextFind]_vars

\* ------------------------------- a tool looked up in the `all` toolset
\* The short names looked up: those of the catalog and one no tool has.
ShortNames == {t.name : t \in Tools} \cup {"missing"}

\* findToolByExternalName(n, allToolsets.all) is called with the toolsets
\* loadToolsetsFromCfg returned.
ResolveInAll ==
    /\ calls > 0
    /\ nameCall = "none"
    /\ \E n \in ShortNames : externalName' = n
    /\ availableTools' = Value(allToolsets, "all")
    /\ foundTool' = findToolByExternalName(externalName', availableTools')
    /\ nameCall' = "find"
    /\ UNCHANGED <<toolName, extractedName, sessionVars, toolsetVars, viewVars, reportVars>>

NextResolve == LoadToolsets \/ ResolveInAll

SpecResolve == InitToolsets /\ [][NextResolve]_vars

\* ------------------------------------------------------ injectAnalytics
\* The most pieces of a page.
MaxHtml == 3

\* A page is the sequence of its pieces: the closing body tag, and any
\* other markup.
BodyClose == "</body>"

HtmlPieces == {BodyClose, "<div>"}

\* The second argument: a boolean, or left out.
EnableValues == {"true", "false", "undefined"}

\* The third argument: a string, or left out.
WriteKeys == {"test_key", "", "undefined"}

\* !value of JavaScript.
Falsy(value) == value \in {"false", "undefined", ""}

\* The template literal holding getSegmentSnippet(segmentWriteKey) and
\* getAnalyticsTrackingCode().
analyticsScripts(key) == "<script " \o key \o ">"

\* String.prototype.replace with a string pattern: the first occurrence
\* of the pattern is replaced, the string is unchanged when there is none.
Replace(str, pattern, replacement) ==
    LET at == {i \in 1..Len(str) : str[i] = pattern}
    IN  IF at = {} THEN str
        ELSE LET i == CHOOSE k \in at : \A m \in at : k <= m
             IN  SubSeq(str, 1, i - 1) \o replacement \o SubSeq(str, i + 1, Len(str))

injectAnalytics(html_, enableAnalytics_, segmentWriteKey_, loads) ==
    IF Falsy(enableAnalytics_) \/ Falsy(segmentWriteKey_) THEN html_
    ELSE IF ~loads THEN html_
    ELSE Replace(html_, BodyClose, <<analyticsScripts(segmentWriteKey_), BodyClose>>)

InitInject ==
    /\ SessionsInit({})
    /\ NoToolsets
    /\ NoNames
    /\ NoReporting
    /\ html \in SeqsUpTo(HtmlPieces, MaxHtml)
    /\ enableAnalytics \in EnableValues
    /\ segmentWriteKey \in WriteKeys
    /\ analyticsLoads \in BOOLEAN
    /\ injected = <<>>
    /\ viewCall = "none"

\* injectAnalytics(html, enableAnalytics, segmentWriteKey) is called and
\* its promise resolves.
InjectAnalytics ==
    /\ viewCall = "none"
    /\ injected' = injectAnalytics(html, enableAnalytics, segmentWriteKey, analyticsLoads)
    /\ viewCall' = "injectAnalytics"
    /\ UNCHANGED <<html, enableAnalytics, segmentWriteKey, analyticsLoads,
                   sessionVars, toolsetVars, nameVars, reportVars>>

NextInject == InjectAnalytics

SpecInject == InitInject /\ [][NextInject]_vars

\* ------------------------------ AnalyticsService: periodic reporting
\* The most startPeriodicReporting() calls that schedule, and the most
\* reports counted.
MaxStarts == 3
MaxReports == 4

InitReporting ==
    /\ SessionsInit({})
    /\ NoToolsets
    /\ NoNames
    /\ NoViews
    /\ analyticsEnabled \in BOOLEAN
    /\ reportingInterval = Null
    /\ intervals = {}
    /\ initialReports = 0
    /\ starts = 0
    /\ reports = 0
    /\ reporting = [called |-> "none", step |-> "none"]

\* The state as one value: what the methods below read and assign.
AS == [reportingInterval |-> reportingInterval, intervals |-> intervals,
       initialReports |-> initialReports, starts |-> starts, reports |-> reports]

\* stopPeriodicReporting()
stopPeriodicReporting(st) ==
    IF st.reportingInterval # Null
    THEN [st EXCEPT !.intervals = @ \ {st.reportingInterval},
                    !.reportingInterval = Null]
    ELSE st

\* startPeriodicReporting(): stopPeriodicReporting(), the one-minute timer
\* (its handle is not kept), and the interval.
startPeriodicReporting(st, enabled) ==
    IF ~enabled THEN st
    ELSE LET s1 == stopPeriodicReporting(st)
         IN  [s1 EXCEPT !.initialReports = @ + 1,
                        !.starts = @ + 1,
                        !.intervals = @ \cup {s1.starts + 1},
                        !.reportingInterval = s1.starts + 1]

\* sendMetricsSummary(), as far as whether it runs past its isEnabled() check.
sendMetricsSummary(st, enabled) ==
    IF ~enabled THEN st ELSE [st EXCEPT !.reports = @ + 1]

\* The AnalyticsService's next state is st.
Reported(st, called, step) ==
    /\ reportingInterval' = st.reportingInterval
    /\ intervals' = st.intervals
    /\ initialReports' = st.initialReports
    /\ starts' = st.starts
    /\ reports' = st.reports
    /\ reporting' = [called |-> called, step |-> step]
    /\ UNCHANGED <<analyticsEnabled, sessionVars, toolsetVars, nameVars, viewVars>>

StartPeriodicReporting ==
    /\ starts < MaxStarts
    /\ Reported(startPeriodicReporting(AS, analyticsEnabled), "start", "start")

StopPeriodicReporting ==
    Reported(stopPeriodicReporting(AS), "stop", "stop")

\* The one-minute timer fires: sendMetricsSummary(true).
InitialReport ==
    /\ initialReports > 0
    /\ reports < MaxReports
    /\ Reported(sendMetricsSummary([AS EXCEPT !.initialReports = @ - 1], analyticsEnabled),
                reporting.called, "initialReport")

\* The interval fires: sendMetricsSummary().
IntervalReport ==
    /\ intervals # {}
    /\ reports < MaxReports
    /\ Reported(sendMetricsSummary(AS, analyticsEnabled), reporting.called, "intervalReport")

NextReporting ==
    \/ StartPeriodicReporting
    \/ StopPeriodicReporting
    \/ InitialReport
    \/ IntervalReport

SpecReporting == InitReporting /\ [][NextReporting]_vars

\* ================================================================ claims
\* Helpers of the statements below.
RECURSIVE StrayCount(_, _, _)
StrayCount(st, sid, l) ==
    IF l < 0 THEN 0 ELSE st.strayTimers[<<sid, l>>] + StrayCount(st, sid, l - 1)

\* The number of scheduled timers whose callback deletes sid.
TimerCount(st, sid) ==
    (IF HasOwn(st, sid) /\ st.sessions[sid].timeout.live THEN 1 ELSE 0)
    + (IF sid \in InheritedKeys /\ st.inheritedTimeout[sid].live THEN 1 ELSE 0)
    + StrayCount(st, sid, SessionTimeout)

\* Session k has exactly one scheduled timer: its own, with a full window.
FullWindow(st, k) ==
    /\ HasOwn(st, k)
    /\ st.sessions[k].timeout = setTimeout
    /\ TimerCount(st, k) = 1

\* This step is the idle timer of the stored session k firing.
Evicts(k) ==
    /\ last'.op = "timeout" /\ last'.sid = k /\ last'.own
    /\ k \in DOMAIN sessions

Held == {sessions[k].transport : k \in DOMAIN sessions}

Stored == 1..(nextTransport - 1)

\* C1: every eviction by the idle timer comes with a close() call on the
\* evicted session's transport.
C1_EvictionClosesTransport ==
    [][\A k \in SessionIds :
          Evicts(k) /\ k \notin DOMAIN sessions'
              => closeCalls'[sessions[k].transport] > closeCalls[sessions[k].transport]]_vars

\* C2: no transport leaks: every transport passed to store() is held by a
\* session record, or close() was called on it, or a caller deleted its
\* session (and so took the transport over).
C2_NoTransportLeak ==
    \A t \in Stored : t \in Held \/ closeCalls[t] > 0 \/ t \in released

\* C3: a read accessor on a stored session restarts its idle window in full
\* (one scheduled timer, SessionTimeout ticks to go), and the idle timer
\* never evicts a session less than SessionTimeout ticks after its last
\* store or read.
C3_ReadRenews ==
    [][\A k \in SessionIds :
          /\ (last'.op = "read" /\ last'.sid = k /\ k \in DOMAIN sessions)
                => FullWindow(SM', k) /\ idle'[k] = 0
          /\ (k \in DOMAIN sessions /\ k \notin DOMAIN sessions' /\ last'.op = "timeout")
                => idle[k] >= SessionTimeout]_vars

C3_Witness ==
    /\ last.op = "read" /\ last.own
    /\ FullWindow(SM, last.sid)
    /\ last.idle > 0

\* C4: a session left alone for SessionTimeout ticks is gone then: it is
\* never stored longer, the timer that fires removes it and adds exactly 1
\* to the session-timeout counter, and has(id) is false afterwards.
C4_IdleSessionEvicted ==
    [][/\ \A k \in DOMAIN sessions' : idle'[k] <= SessionTimeout
       /\ \A k \in SessionIds :
            Evicts(k) => /\ idle[k] = SessionTimeout
                         /\ sessionTimeouts' = sessionTimeouts + 1
                         /\ k \notin DOMAIN sessions'
                         /\ ~has(SM', k).ret]_vars

\* C5: the scheduled timers and the stored sessions correspond one to one:
\* one timer for every stored id, none for any other id.
C5_OneTimerPerSession ==
    \A k \in SessionIds : TimerCount(SM, k) = (IF k \in DOMAIN sessions THEN 1 ELSE 0)

\* C6: closeAllSessions() with nothing interleaved: a close() that rejects
\* is logged and the loop goes on; when the call resolves, close() has been
\* called on the transport of every session present at the call and no
\* session is left.
C6_CloseAllIsolatesFailures ==
    [][/\ last'.op = "closeFailed"
            => /\ errorLog' = errorLog + 1
               /\ \A c \in Closers : closers'[c].pc \in {"idle", "await", "done"}
       /\ \A c \in Closers :
            closers[c].pc # "done" /\ closers'[c].pc = "done" /\ closers'[c].clean
                => /\ getActiveCount(SM') = 0
                   /\ \A x \in closers'[c].snapshot : closeCalls'[x[2]] >= 1]_vars

C6_Witness ==
    \E c \in Closers :
        /\ last.op = "closed"
        /\ closers[c].pc = "done" /\ closers[c].clean
        /\ Cardinality(closers[c].snapshot) = 2
        /\ errorLog = 1
        /\ getActiveCount(SM) = 0

\* C7: whatever interleaves with closeAllSessions(), when it resolves every
\* session present at the call is gone and the store has called close() on
\* its transport, unless a caller deleted the session itself.
C7_CloseAllClosesEverySession ==
    \A c \in Closers :
        closers[c].pc = "done"
            => \A x \in closers[c].snapshot :
                  /\ x[2] \notin Held
                  /\ closeCalls[x[2]] >= 1 \/ x[2] \in released

\* C8: the session gauge equals the number of stored sessions.
C8_GaugeCountsSessions ==
    activeSessions = getActiveCount(SM)

\* C9: store() on a stored id replaces the record's data and restarts the
\* idle window: one scheduled timer is left for the id, SessionTimeout ticks
\* to go, and the timer evicts the session exactly SessionTimeout ticks
\* after the latest store or read.
C9_RestoreRestartsWindow ==
    [][\A k \in SessionIds :
          /\ (last'.op = "store" /\ last'.sid = k /\ last'.own)
                => /\ FullWindow(SM', k) /\ idle'[k] = 0
                   /\ sessions'[k].transport = nextTransport
                   /\ sessions'[k].token = TokenOf(nextTransport)
                   /\ sessions'[k].userAgent = UserAgentOf(nextTransport)
                   /\ sessions'[k].toolset = ToolsetOf(nextTransport)
          /\ (k \in DOMAIN sessions /\ k \notin DOMAIN sessions' /\ last'.op = "timeout")
                => idle[k] = SessionTimeout]_vars

C9_Witness ==
    /\ last.op = "store" /\ last.own /\ last.idle > 0
    /\ FullWindow(SM, last.sid)
    /\ sessions[last.sid].transport = 2

\* C10: delete(id) leaves no scheduled timer for the id and does not touch
\* the session-timeout counter, so nothing evicts a session stored under the
\* same id afterwards before its own window has run.
C10_DeleteCancelsTimer ==
    [][\A k \in SessionIds :
          /\ (last'.op = "delete" /\ last'.sid = k)
                => /\ TimerCount(SM', k) = 0
                   /\ sessionTimeouts' = sessionTimeouts
                   /\ k \notin DOMAIN sessions'
          /\ (last'.op = "store" /\ last'.sid = k /\ ~last'.own)
                => FullWindow(SM', k)]_vars

C10_Witness ==
    /\ last.op = "store" /\ ~last.own
    /\ released # {}
    /\ sessions[last.sid].transport = 2
    /\ sessionTimeouts = 0

\* What get() returns for the session stored with transport t.
StoredData(t) ==
    [defined |-> TRUE, token |-> TokenOf(t), userAgent |-> UserAgentOf(t),
     toolset |-> ToolsetOf(t), transport |-> t]

\* The program's state is the same after this step.
SameState == SM' = SM

\* C11: delete(id) on a stored session removes the record, leaves no
\* scheduled timer for the id, takes exactly 1 off the session gauge and
\* calls close() on no transport.
C11_DeletePresent ==
    [][\A k \in SessionIds :
          (last'.op = "delete" /\ last'.sid = k /\ k \in DOMAIN sessions)
              => /\ k \notin DOMAIN sessions'
                 /\ getActiveCount(SM') = getActiveCount(SM) - 1
                 /\ TimerCount(SM', k) = 0
                 /\ activeSessions' = activeSessions - 1
                 /\ closeCalls' = closeCalls
                 /\ \A j \in DOMAIN sessions \ {k} :
                       j \in DOMAIN sessions' /\ sessions'[j] = sessions[j]]_vars

C11_Witness ==
    /\ last.op = "delete" /\ last.own
    /\ sessions # << >>
    /\ released # {}
    /\ \A t \in DOMAIN closeCalls : closeCalls[t] = 0

\* C12: delete(id) on an id with no record changes nothing: no record is
\* removed, the session gauge keeps its value and no timer is cancelled.
C12_DeleteAbsentIsNoOp ==
    [][\A k \in SessionIds :
          (last'.op = "delete" /\ last'.sid = k /\ k \notin DOMAIN sessions)
              => SameState]_vars

\* C13: on an id with no record getToolset throws, get, getToken,
\* getUserAgent and getTransport return undefined and has returns false,
\* and a read of such an id changes nothing in the store.
C13_AbsentReads ==
    [][/\ \A k \in SessionIds \ DOMAIN sessions :
            /\ getToolset(SM, k).threw
            /\ ~get(SM, k).ret.defined
            /\ getToken(SM, k).ret = NoToken
            /\ getUserAgent(SM, k).ret = UndefinedStr
            /\ getTransport(SM, k).ret = Undefined
            /\ ~has(SM, k).ret
       /\ \A k \in SessionIds :
            (last'.op = "read" /\ last'.sid = k /\ k \notin DOMAIN sessions)
                => SameState]_vars

\* C14: get(id) on a stored session returns the token, user agent, toolset
\* and transport of the latest store(id, ...), and no timer; on an id with
\* no record it returns undefined.
C14_GetReturnsStoredData ==
    [][/\ \A k \in SessionIds :
            /\ (last'.op = "store" /\ last'.sid = k)
                  => get(SM', k).ret = StoredData(nextTransport)
            /\ (last'.op # "store" /\ k \in DOMAIN sessions /\ k \in DOMAIN sessions')
                  => get(SM', k).ret = get(SM, k).ret
       /\ \A k \in DOMAIN sessions' : "timeout" \notin DOMAIN get(SM', k).ret
       /\ \A k \in SessionIds \ DOMAIN sessions' : ~get(SM', k).ret.defined]_vars

\* C16: while a session stays stored, getToolset(id) keeps returning the
\* same toolset, whatever operation is made.
C16_ToolsetImmutable ==
    [][\A k \in SessionIds :
          (k \in DOMAIN sessions /\ k \in DOMAIN sessions')
              => getToolset(SM', k).ret = getToolset(SM, k).ret]_vars

\* C17: the idle timer never evicts a session while closeAllSessions() is
\* awaiting close() on that session's transport.
C17_NoEvictionMidUse ==
    [][\A c \in Closers, k \in SessionIds :
          (closers[c].pc = "await" /\ closers[c].sid = k /\ k \in DOMAIN sessions)
              => ~(Evicts(k) /\ k \notin DOMAIN sessions')]_vars

\* C15: has("") is false in every reachable state, store("", ...) included.
C15_EmptyIdAbsent ==
    ~has(SM, EmptyId).ret

\* Helpers of the statements about loadToolsetsFromCfg.
Range(list) == {list[i] : i \in 1..Len(list)}

\* The catalog definitions whose fullName toolset i of the config declares.
Declared(i) == SelectSeq(allTools, LAMBDA t : t.fullName \in Range(localConfig[i][2]))

\* The lists of the declared toolsets, one after the other.
RECURSIVE Concatenated(_)
Concatenated(i) ==
    IF i > Len(localConfig) THEN <<>> ELSE Declared(i) \o Concatenated(i + 1)

\* The elements of list that no element of the same name precedes.
FirstByName(list) ==
    LET firsts == {i \in 1..Len(list) : \A j \in 1..(i - 1) : list[j].name # list[i].name}
    IN  [k \in 1..Cardinality(firsts) |->
            list[CHOOSE i \in firsts : Cardinality({j \in firsts : j <= i}) = k]]

DeclaresAll == \E i \in 1..Len(localConfig) : localConfig[i][1] = "all"

\* C18: the `all` toolset returned is the concatenation of the declared
\* toolsets' lists, in the config's order, with every definition dropped
\* that follows one of the same name; no two of its entries share a name.
C18_AllIsDedupedConcatenation ==
    calls > 0 =>
        LET all == Value(allToolsets, "all")
        IN  /\ all = FirstByName(Concatenated(1))
            /\ \A i, j \in 1..Len(all) : all[i].name = all[j].name => i = j

C18_Witness ==
    /\ calls > 0
    /\ Len(localConfig) = 2
    /\ \E i, j \in 1..Len(Concatenated(1)) :
          /\ i < j
          /\ Concatenated(1)[i].name = Concatenated(1)[j].name
          /\ Concatenated(1)[i].fullName # Concatenated(1)[j].fullName
    /\ Len(Value(allToolsets, "all")) = 1
    /\ Value(allToolsets, "all")[1] = Concatenated(1)[1]

\* C19 as stated: every declared toolset, one named `all` included, gets
\* exactly the catalog definitions its list declares, and the toolsets
\* returned are the declared ones and `all`.
C19_EveryDeclaredToolsetResolved ==
    calls > 0 =>
        /\ \A i \in 1..Len(localConfig) :
              Value(allToolsets, localConfig[i][1]) = Declared(i)
        /\ Keys(allToolsets) = {localConfig[i][1] : i \in 1..Len(localConfig)} \cup {"all"}

\* C19: every declared toolset not named `all` gets exactly the catalog
\* definitions whose fullName its list declares, in catalog order (declared
\* names without a catalog entry add nothing), and the toolsets returned
\* are the declared ones and `all`.
C19_DeclaredToolsetsResolved ==
    calls > 0 =>
        /\ \A i \in 1..Len(localConfig) :
              localConfig[i][1] # "all"
                  => Value(allToolsets, localConfig[i][1]) = Declared(i)
        /\ Keys(allToolsets) = {localConfig[i][1] : i \in 1..Len(localConfig)} \cup {"all"}
        /\ Len(allToolsets) = Cardinality(Keys(allToolsets))

C19_Witness ==
    /\ calls > 0
    /\ \E i \in 1..Len(localConfig) :
          /\ localConfig[i][1] # "all"
          /\ Len(Value(allToolsets, localConfig[i][1])) = 1
          /\ \E n \in Range(localConfig[i][2]) :
                \A k \in 1..Len(allTools) : allTools[k].fullName # n
          /\ Len(allTools) = 2

\* C20: the result always has an `all` toolset, and when the config
\* declares a toolset named `all` the one returned is the synthesized
\* list: it has a definition of every name resolved for any declared
\* toolset, the declared `all` included, whatever the declared `all` lists.
C20_DeclaredAllOverridden ==
    calls > 0 =>
        /\ "all" \in Keys(allToolsets)
        /\ DeclaresAll =>
              /\ Value(allToolsets, "all") = FirstByName(Concatenated(1))
              /\ \A i \in 1..Len(localConfig) : \A k \in 1..Len(Declared(i)) :
                    \E m \in 1..Len(Value(allToolsets, "all")) :
                        Value(allToolsets, "all")[m].name = Declared(i)[k].name

C20_Witness ==
    /\ calls > 0
    /\ \E i \in 1..Len(localConfig) :
          /\ localConfig[i][1] = "all"
          /\ Len(Declared(i)) = 1
          /\ Len(Value(allToolsets, "all")) = 2

\* C30: in the list of every declared toolset (not named `all`) the
\* definitions come in the order of the declared list: when the list names
\* a before b, no definition of b precedes a definition of a.
C30_DeclaredOrderPreserved ==
    calls > 0 =>
        \A i \in 1..Len(localConfig) :
            localConfig[i][1] # "all" =>
                LET list == localConfig[i][2]
                    res  == Value(allToolsets, localConfig[i][1])
                IN  \A p, q \in 1..Len(list) : \A m, n \in 1..Len(res) :
                        (p < q /\ res[m].fullName = list[p] /\ res[n].fullName = list[q])
                            => m < n

\* Helpers of the statements about extractToolNameAfterPrefix.
Periods(name) == {i \in 1..Len(name) : name[i] = "."}

HasLineTerminator(name) == \E i \in 1..Len(name) : name[i] \in LineTerminators

FirstPeriod(name) == CHOOSE i \in Periods(name) : \A k \in Periods(name) : i <= k

LastPeriod(name) == CHOOSE i \in Periods(name) : \A k \in Periods(name) : k <= i

\* C22 as stated: the part after the last period is returned when
\* something follows it, and a name without a period is returned unchanged.
C22_AfterLastPeriod ==
    nameCall = "extract" =>
        /\ (Periods(toolName) # {} /\ LastPeriod(toolName) < Len(toolName))
              => extractedName = After(toolName, LastPeriod(toolName))
        /\ Periods(toolName) = {} => extractedName = toolName

\* C22: for a name without line terminators the part after the first
\* period is returned when something follows that period (for a name with
\* several periods, everything after the first one); a name without a
\* period is returned unchanged.
C22_AfterFirstPeriod ==
    nameCall = "extract" =>
        /\ (/\ ~HasLineTerminator(toolName)
            /\ Periods(toolName) # {}
            /\ FirstPeriod(toolName) < Len(toolName))
              => extractedName = After(toolName, FirstPeriod(toolName))
        /\ Periods(toolName) = {} => extractedName = toolName

C22_Witness ==
    /\ nameCall = "extract"
    /\ toolName = <<".", "a", ".", "a">>
    /\ extractedName = <<"a", ".", "a">>

\* C23 as stated: of a name with more than one period, everything after
\* the first period is returned.
C23_MultiPeriodAnyName ==
    (nameCall = "extract" /\ Cardinality(Periods(toolName)) > 1)
        => extractedName = After(toolName, FirstPeriod(toolName))

\* C23: of a name with more than one period and no line terminator,
\* everything after the first period is returned.
C23_MultiPeriod ==
    (/\ nameCall = "extract"
     /\ Cardinality(Periods(toolName)) > 1
     /\ ~HasLineTerminator(toolName))
        => extractedName = After(toolName, FirstPeriod(toolName))

C23_Witness ==
    /\ nameCall = "extract"
    /\ toolName = <<"a", ".", "a", ".">>
    /\ extractedName = <<"a", ".">>

\* C24 as stated: a name that ends with a period is returned unchanged,
\* whatever precedes the period, and not as the empty string.
C24_TrailingPeriodAnyName ==
    (nameCall = "extract" /\ toolName # <<>> /\ toolName[Len(toolName)] = ".")
        => extractedName = toolName /\ extractedName # <<>>

\* C24: a name whose only period is its last character is returned
\* unchanged, and no name that ends with a period is returned as the empty
\* string.
C24_TrailingPeriod ==
    (nameCall = "extract" /\ toolName # <<>> /\ toolName[Len(toolName)] = ".")
        => /\ extractedName # <<>>
           /\ Periods(toolName) = {Len(toolName)} => extractedName = toolName

C24_Witness ==
    /\ nameCall = "extract"
    /\ toolName = <<"a", "a", ".">>
    /\ extractedName = toolName

\* C25: the tool returned is the first of the tools searched whose name is
\* exactly the name looked up, hence one of the tools searched; undefined
\* is returned exactly when no tool searched has that name.
C25_FirstExactMatch ==
    nameCall = "find" =>
        LET hits == {i \in 1..Len(availableTools) : availableTools[i].name = externalName}
        IN  /\ hits = {} <=> foundTool = NoTool
            /\ hits # {} =>
                  \E i \in hits :
                      /\ foundTool = [defined |-> TRUE, tool |-> availableTools[i]]
                      /\ \A k \in hits : i <= k

C25_Witness ==
    /\ nameCall = "find"
    /\ externalName = <<"a">>
    /\ availableTools = <<Definition(<<"c">>, <<"A">>), Definition(<<"e">>, <<"a">>)>>
    /\ foundTool = [defined |-> TRUE, tool |-> Definition(<<"e">>, <<"a">>)]

\* C26: when no two of the tools searched have the same name, looking up
\* the short name taken from a definition's full name finds a tool with
\* that same full name.
C26_RoundTrip ==
    (/\ nameCall = "roundtrip"
     /\ \A i, j \in 1..Len(availableTools) :
            availableTools[i].name = availableTools[j].name => i = j)
        => /\ foundTool # NoTool
           /\ foundTool.tool.fullName = toolName

C26_Witness ==
    /\ nameCall = "roundtrip"
    /\ availableTools = <<Definition(<<"c">>, <<"a">>), Definition(<<"c">>, <<"a", ".", "a">>)>>
    /\ toolName = <<"c", ".", "a", ".", "a">>
    /\ foundTool = [defined |-> TRUE, tool |-> Definition(<<"c">>, <<"a", ".", "a">>)]

\* C27: with analytics enabled, a non-empty write key and the analytics
\* module loaded, the page returned is the page given with the analytics
\* scripts inserted immediately before its last closing body tag and
\* nothing else changed; with analytics disabled, the write key missing or
\* empty, or no closing body tag in the page, the page is returned
\* unchanged.
C27_InjectsBeforeLastBody ==
    viewCall = "injectAnalytics" =>
        LET at   == {i \in 1..Len(html) : html[i] = BodyClose}
            on   == enableAnalytics = "true" /\ segmentWriteKey \notin {"", "undefined"}
            last_ == CHOOSE i \in at : \A k \in at : k <= i
        IN  /\ (on /\ analyticsLoads /\ at # {})
                  => injected = SubSeq(html, 1, last_ - 1)
                                    \o <<analyticsScripts(segmentWriteKey)>>
                                    \o SubSeq(html, last_, Len(html))
            /\ (~on \/ at = {}) => injected = html

\* C28: every session record a closeAllSessions() call removes holds, when
\* it is removed, a transport whose close() has been called.
C28_RemovedTransportClosed ==
    [][last'.op \in {"closeAll", "closed", "closeFailed"} =>
          \A k \in DOMAIN sessions :
              k \notin DOMAIN sessions' => closeCalls'[sessions[k].transport] >= 1]_vars

\* C29: close() is called at most once on a transport the store holds or
\* held.
C29_CloseAtMostOnce ==
    \A t \in DOMAIN closeCalls : closeCalls[t] <= 1

\* C31: in the list of a declared toolset (not named `all`) no two
\* definitions have the same fullName, whatever the catalog holds.
C31_OnePerDeclaredName ==
    calls > 0 =>
        \A i \in 1..Len(localConfig) :
            localConfig[i][1] # "all" =>
                LET res == Value(allToolsets, localConfig[i][1])
                IN  \A m, n \in 1..Len(res) :
                        res[m].fullName = res[n].fullName => m = n

\* C33: a short name looked up in the `all` toolset gives the definition
\* that comes first under that name in the declared toolsets' lists taken
\* one after the other, and none when no list has a tool of that name.
C33_FirstWinsConsistent ==
    (calls > 0 /\ nameCall = "find") =>
        LET L    == Concatenated(1)
            hits == {i \in 1..Len(L) : L[i].name = externalName}
        IN  IF hits = {} THEN foundTool = NoTool
            ELSE foundTool = [defined |-> TRUE,
                              tool |-> L[CHOOSE i \in hits : \A k \in hits : i <= k]]

C33_Witness ==
    /\ calls > 0
    /\ nameCall = "find"
    /\ externalName = "jobs_list"
    /\ \E i, j \in 1..Len(Concatenated(1)) :
          /\ i < j
          /\ Concatenated(1)[i].name = "jobs_list"
          /\ Concatenated(1)[j].name = "jobs_list"
          /\ Concatenated(1)[i].fullName # Concatenated(1)[j].fullName
          /\ \A k \in 1..(i - 1) : Concatenated(1)[k].name # "jobs_list"
          /\ foundTool = [defined |-> TRUE, tool |-> Concatenated(1)[i]]

\* C38: `all` has a definition of the short name of every definition in a
\* declared toolset's list, and every definition of `all` is in the list of
\* some declared toolset.
C38_AllCoversDeclared ==
    calls > 0 =>
        LET all == Value(allToolsets, "all")
        IN  /\ \A i \in 1..Len(localConfig) : \A d \in Range(Declared(i)) :
                   \E a \in Range(all) : a.name = d.name
            /\ \A a \in Range(all) :
                   \E i \in 1..Len(localConfig) : a \in Range(Declared(i))

C38_Witness ==
    /\ calls > 0
    /\ Len(localConfig) = 2
    /\ [name |-> "hosts_list", fullName |-> "controller.hosts_list"] \in Range(Declared(2))
    /\ [name |-> "hosts_list", fullName |-> "controller.hosts_list"] \notin Range(Declared(1))
    /\ [name |-> "hosts_list", fullName |-> "controller.hosts_list"]
           \in Range(Value(allToolsets, "all"))

\* C32: a store or a read of a stored session leaves exactly one scheduled
\* timer for its id, the new one with SessionTimeout ticks to go (the timer
\* it replaced is no longer scheduled), however soon it follows the store or
\* read before it; and a timer evicts a session only SessionTimeout ticks
\* after the last of them.
C32_RenewalLeavesOneTimer ==
    [][\A k \in SessionIds :
          /\ (last'.op \in {"store", "read"} /\ last'.sid = k /\ last'.own)
                => /\ k \in DOMAIN sessions'
                   /\ sessions'[k].timeout = setTimeout
                   /\ TimerCount(SM', k) = 1
                   /\ StrayCount(SM', k, SessionTimeout) = 0
          /\ Evicts(k) => idle[k] = SessionTimeout /\ TimerCount(SM', k) = 0]_vars

C32_Witness ==
    /\ last.op = "read" /\ last.own /\ last.idle = 0
    /\ sessions[last.sid].timeout = setTimeout
    /\ TimerCount(SM, last.sid) = 1
    /\ nextTransport > 2

\* Helpers of C34: what is kept of session j, and of the timers of id j.
Kept(j) ==
    /\ j \in DOMAIN sessions <=> j \in DOMAIN sessions'
    /\ j \in DOMAIN sessions =>
          /\ sessions'[j].token = sessions[j].token
          /\ sessions'[j].userAgent = sessions[j].userAgent
          /\ sessions'[j].toolset = sessions[j].toolset
          /\ sessions'[j].transport = sessions[j].transport

SameDeadline(j) ==
    /\ j \in DOMAIN sessions => sessions'[j].timeout = sessions[j].timeout
    /\ j \in InheritedKeys => inheritedTimeout'[j] = inheritedTimeout[j]
    /\ \A l \in 0..SessionTimeout : strayTimers'[<<j, l>>] = strayTimers[<<j, l>>]

\* C34: a store, read or delete of id k, the timer of k firing, or the
\* close() of k's transport rejecting, changes of another id j neither the
\* stored data, nor whether it is stored, nor its scheduled timers.  (After
\* a rejected close() the closeAllSessions() loop goes on with the ids it
\* has left; the timers of an id change only in the iteration for that id.)
C34_OtherSessionsUntouched ==
    [][\A k \in SessionIds : \A j \in SessionIds \ {k} :
          /\ (last'.op \in {"store", "read", "delete", "timeout"} /\ last'.sid = k)
                => Kept(j) /\ SameDeadline(j)
          /\ (last'.op = "closeFailed" /\ last'.sid = k)
                => /\ Kept(j)
                   /\ SameDeadline(j) \/ \E c \in Closers :
                                            /\ closers[c].sid = k
                                            /\ j \in Range(closers[c].ids)]_vars

C34_Witness ==
    /\ last.op = "closeFailed"
    /\ last.sid \notin DOMAIN sessions
    /\ \E j \in DOMAIN sessions : j # last.sid
    /\ errorLog = 1

\* C36: the session-timeout counter changes only when the idle timer of a
\* stored session fires and evicts it, and then by exactly 1; delete(),
\* store() and closeAllSessions() leave it as it is.
C36_TimeoutsCountEvictions ==
    [][/\ sessionTimeouts' # sessionTimeouts
            => /\ last'.op = "timeout" /\ last'.own
               /\ last'.sid \in DOMAIN sessions /\ last'.sid \notin DOMAIN sessions'
       /\ \A k \in SessionIds : Evicts(k) => sessionTimeouts' = sessionTimeouts + 1]_vars

\* C35: getAllSessionIds() returns the ids of the stored sessions, each
\* once, and getActiveCount() their number; neither call changes the
\* SessionManager or any timer, so a session is still evicted
\* SessionTimeout ticks after its last store or read.
C35_ObservationsArePure ==
    [][/\ last'.op = "getAllSessionIds"
            => /\ SM' = SM /\ idle' = idle
               /\ Range(last'.ret) = DOMAIN sessions
               /\ Len(last'.ret) = Cardinality(DOMAIN sessions)
       /\ last'.op = "getActiveCount"
            => /\ SM' = SM /\ idle' = idle
               /\ last'.ret = Cardinality(DOMAIN sessions)
       /\ \A k \in SessionIds : Evicts(k) => idle[k] = SessionTimeout]_vars

C35_Witness ==
    /\ last.op = "getActiveCount"
    /\ last.ret = 2
    /\ \E k \in DOMAIN sessions :
          idle[k] > 0 /\ sessions[k].timeout.live /\ sessions[k].timeout.left < SessionTimeout

\* C37: a closeAllSessions() call that was started resolves, whatever is
\* stored, read, deleted or timed out while it awaits, provided every
\* close() it awaits settles.
C37_CloseAllCompletes ==
    \A c \in Closers : (closers[c].pc = "await") ~> (closers[c].pc = "done")

C37_Witness ==
    \E c \in Closers :
        /\ closers[c].pc = "done"
        /\ ~closers[c].clean
        /\ last.op \in {"closed", "closeFailed"}
        /\ errorLog > 0
        /\ sessionTimeouts > 0

\* C39: once stopPeriodicReporting() was called, and until
\* startPeriodicReporting() is called again, the periodic reporter runs
\* sendMetricsSummary neither from the interval nor from the one-minute
\* timer; and however often startPeriodicReporting() is called, at most one
\* interval and at most one one-minute timer are scheduled.
C39_NoReportAfterStop ==
    /\ (reporting.called = "stop")
          => reporting.step \notin {"initialReport", "intervalReport"}
    /\ Cardinality(intervals) <= 1
    /\ initialReports <= 1

====
